---------------------------- MODULE Spec2Model ----------------------------
(***************************************************************************)
(* Form validation engine of script.js (initializeFormValidation) as a     *)
(* state machine: one action per event listener and per timer callback.    *)
(* A JavaScript string is a sequence of one-character strings.             *)
(***************************************************************************)
EXTENDS Integers, Sequences, FiniteSets

(***************************************************************************)
(* Character classes used by the regular expressions                       *)
(***************************************************************************)
Lower == {"a","b","c","d","e","f","g","h","i","j","k","l","m",
          "n","o","p","q","r","s","t","u","v","w","x","y","z"}

Upper == {"A","B","C","D","E","F","G","H","I","J","K","L","M",
          "N","O","P","Q","R","S","T","U","V","W","X","Y","Z"}

Digit == {"0","1","2","3","4","5","6","7","8","9"}

\* \s of a JavaScript regular expression, and the characters trim() strips
\* (the ASCII members of the class)
Whitespace == {" ", "\t", "\n", "\r", "\f"}

\* the characters "." of a regular expression does not match
LineTerminators == {"\n", "\r"}

\* [@$!%*?&]
PasswordSymbols == {"@", "$", "!", "%", "*", "?", "&"}

\* [-. ]
PhoneSeparators == {"-", ".", " "}

(***************************************************************************)
(* String helpers                                                          *)
(***************************************************************************)
RECURSIVE trimStart(_)
trimStart(s) ==
    IF s # <<>> /\ Head(s) \in Whitespace THEN trimStart(Tail(s)) ELSE s

RECURSIVE trimEnd(_)
trimEnd(s) ==
    IF s # <<>> /\ s[Len(s)] \in Whitespace
    THEN trimEnd(SubSeq(s, 1, Len(s) - 1))
    ELSE s

\* String.prototype.trim
trim(s) == trimEnd(trimStart(s))

\* every character of s[a..b] is in class C
AllIn(s, a, b, C) == \A k \in a..b : s[k] \in C

\* every character of s[a..b] is outside class C
NoneIn(s, a, b, C) == \A k \in a..b : s[k] \notin C

DigitValue(c) ==
    CASE c = "0" -> 0 [] c = "1" -> 1 [] c = "2" -> 2 [] c = "3" -> 3
      [] c = "4" -> 4 [] c = "5" -> 5 [] c = "6" -> 6 [] c = "7" -> 7
      [] c = "8" -> 8 [] c = "9" -> 9

RECURSIVE DecimalPrefix(_, _, _)
\* value of the longest run of decimal digits at the head of s, acc so far;
\* seen tells whether a digit was consumed
DecimalPrefix(s, acc, seen) ==
    IF s # <<>> /\ Head(s) \in Digit
    THEN DecimalPrefix(Tail(s), 10 * acc + DigitValue(Head(s)), TRUE)
    ELSE [nan |-> ~seen, n |-> acc]

HexDigit == Digit \cup {"a","b","c","d","e","f","A","B","C","D","E","F"}

HexValue(c) ==
    CASE c \in Digit -> DigitValue(c)
      [] c \in {"a", "A"} -> 10 [] c \in {"b", "B"} -> 11
      [] c \in {"c", "C"} -> 12 [] c \in {"d", "D"} -> 13
      [] c \in {"e", "E"} -> 14 [] c \in {"f", "F"} -> 15

RECURSIVE HexPrefix(_, _, _)
HexPrefix(s, acc, seen) ==
    IF s # <<>> /\ Head(s) \in HexDigit
    THEN HexPrefix(Tail(s), 16 * acc + HexValue(Head(s)), TRUE)
    ELSE [nan |-> ~seen, n |-> acc]

\* parseInt(value) with no radix: leading white space is skipped, an optional
\* sign is read, a 0x/0X prefix selects radix 16, and the longest digit prefix
\* is converted; no digit at all gives NaN
parseInt(value) ==
    LET t    == trimStart(value)
        neg  == t # <<>> /\ Head(t) = "-"
        u    == IF t # <<>> /\ Head(t) \in {"+", "-"} THEN Tail(t) ELSE t
        hex  == Len(u) >= 2 /\ u[1] = "0" /\ u[2] \in {"x", "X"}
        r    == IF hex THEN HexPrefix(Tail(Tail(u)), 0, FALSE)
                       ELSE DecimalPrefix(u, 0, FALSE)
    IN  [nan |-> r.nan, n |-> IF neg THEN 0 - r.n ELSE r.n]

isNaN(x) == x.nan

(***************************************************************************)
(* The regular expressions of validateField                                *)
(***************************************************************************)
\* /^[a-zA-Z\s]+$/
nameRegexTest(s) ==
    Len(s) >= 1 /\ AllIn(s, 1, Len(s), Lower \cup Upper \cup Whitespace)

\* /^[^\s@]+@[^\s@]+\.[^\s@]+$/
emailRegexTest(s) ==
    \E i, j \in 1..Len(s) :
        /\ s[i] = "@"
        /\ s[j] = "."
        /\ 1 < i /\ i + 1 < j /\ j < Len(s)
        /\ NoneIn(s, 1, i - 1, Whitespace \cup {"@"})
        /\ NoneIn(s, i + 1, j - 1, Whitespace \cup {"@"})
        /\ NoneIn(s, j + 1, Len(s), Whitespace \cup {"@"})

\* (?=.*[x]) at the start of the string: a character of class C with no line
\* terminator before it
Lookahead(s, C) ==
    \E i \in 1..Len(s) : s[i] \in C /\ NoneIn(s, 1, i - 1, LineTerminators)

MinPasswordLength == 8

\* /^(?=.*[a-z])(?=.*[A-Z])(?=.*\d)(?=.*[@$!%*?&])[A-Za-z\d@$!%*?&]{8,}$/
passwordRegexTest(s) ==
    /\ Lookahead(s, Lower)
    /\ Lookahead(s, Upper)
    /\ Lookahead(s, Digit)
    /\ Lookahead(s, PasswordSymbols)
    /\ Len(s) >= MinPasswordLength
    /\ AllIn(s, 1, Len(s), Lower \cup Upper \cup Digit \cup PasswordSymbols)

\* positions reachable from a position of P by an optional character of C
Optional(s, P, C) ==
    P \cup {p + 1 : p \in {q \in P : q <= Len(s) /\ s[q] \in C}}

\* positions reachable from a position of P by exactly n digits
Digits(s, P, n) ==
    {p + n : p \in {q \in P : q + n - 1 <= Len(s) /\ AllIn(s, q, q + n - 1, Digit)}}

\* /^\(?([0-9]{3})\)?[-. ]?([0-9]{3})[-. ]?([0-9]{4})$/
phoneRegexTest(s) ==
    LET P1 == Optional(s, {1}, {"("})
        P2 == Digits(s, P1, 3)
        P3 == Optional(s, P2, {")"})
        P4 == Optional(s, P3, PhoneSeparators)
        P5 == Digits(s, P4, 3)
        P6 == Optional(s, P5, PhoneSeparators)
        P7 == Digits(s, P6, 4)
    IN  Len(s) + 1 \in P7

(***************************************************************************)
(* The form: fields, error elements, messages                              *)
(***************************************************************************)
\* Object.keys(fields), in insertion order
Fields == <<"fullname", "email", "password", "confirmPassword", "age", "phone">>

FieldNames == {Fields[i] : i \in 1..Len(Fields)}

\* mutant of requiredFields: the optional field counted as required
requiredFieldsWithPhone == Fields

\* requiredFields of updateSubmitButton
requiredFields == <<"fullname", "email", "password", "confirmPassword", "age">>

\* the id validateField looks the error element up by
errorElementId(fieldName) ==
    IF fieldName = "confirmPassword" THEN "confirm-password-error"
                                     ELSE fieldName \o "-error"

\* the error elements of the document: the ones validateField writes to
ErrorElementIds == {errorElementId(f) : f \in FieldNames}

null == "null"

\* document.getElementById, for the error elements
getElementById(id) == IF id \in ErrorElementIds THEN id ELSE null

MsgNameLength == "Full name must be at least 2 characters long."
MsgNameChars == "Full name can only contain letters and spaces."
MsgEmailRequired == "Email address is required."
MsgEmailInvalid == "Please enter a valid email address."
MsgPasswordLength == "Password must be at least 8 characters long."
MsgPasswordContent ==
    "Password must contain uppercase, lowercase, number, and special character."
MsgConfirmRequired == "Please confirm your password."
MsgConfirmMismatch == "Passwords do not match."
MsgAgeRequired == "Age is required."
MsgAgeRange == "Age must be between 13 and 120."
MsgPhoneInvalid == "Please enter a valid phone number (e.g., (123) 456-7890)."

\* the button labels, without their leading pictograph
LabelReady == "Submit Form"
LabelIncomplete == "Complete Required Fields"

MinNameLength == 2
MinAge == 13
MaxAge == 120

Invalid(msg) == [isValid |-> FALSE, errorMessage |-> msg]
Valid == [isValid |-> TRUE, errorMessage |-> ""]

(***************************************************************************)
(* validateField: the switch on the field name.  passwordValue is          *)
(* fields.password.value at the time of the call.                          *)
(***************************************************************************)
fullnameRule(value) ==
    IF Len(trim(value)) < MinNameLength THEN Invalid(MsgNameLength)
    ELSE IF ~nameRegexTest(trim(value)) THEN Invalid(MsgNameChars)
    ELSE Valid

\* mutant of emailRule: the missing address is rejected without a message
emailRuleSilent(value) ==
    IF trim(value) = <<>> THEN Invalid("")
    ELSE IF ~emailRegexTest(value) THEN Invalid(MsgEmailInvalid)
    ELSE Valid

emailRule(value) ==
    IF trim(value) = <<>> THEN Invalid(MsgEmailRequired)
    ELSE IF ~emailRegexTest(value) THEN Invalid(MsgEmailInvalid)
    ELSE Valid

passwordRule(value) ==
    IF Len(value) < MinPasswordLength THEN Invalid(MsgPasswordLength)
    ELSE IF ~passwordRegexTest(value) THEN Invalid(MsgPasswordContent)
    ELSE Valid

confirmPasswordRule(value, passwordValue) ==
    IF value = <<>> THEN Invalid(MsgConfirmRequired)
    ELSE IF value # passwordValue THEN Invalid(MsgConfirmMismatch)
    ELSE Valid

\* mutant of ageRule: the lower limit is excluded
ageRuleExclusive(value) ==
    LET ageNum == parseInt(value)
    IN  IF value = <<>> THEN Invalid(MsgAgeRequired)
        ELSE IF isNaN(ageNum) \/ ageNum.n <= MinAge \/ ageNum.n > MaxAge
             THEN Invalid(MsgAgeRange)
        ELSE Valid

ageRule(value) ==
    LET ageNum == parseInt(value)
    IN  IF value = <<>> THEN Invalid(MsgAgeRequired)
        ELSE IF isNaN(ageNum) \/ ageNum.n < MinAge \/ ageNum.n > MaxAge
             THEN Invalid(MsgAgeRange)
        ELSE Valid

\* mutant of phoneRule: only the empty string is taken as "no phone"
phoneRuleNoTrim(value) ==
    IF value = <<>> THEN Valid
    ELSE IF ~phoneRegexTest(value) THEN Invalid(MsgPhoneInvalid)
    ELSE Valid

phoneRule(value) ==
    IF trim(value) = <<>> THEN Valid
    ELSE IF ~phoneRegexTest(value) THEN Invalid(MsgPhoneInvalid)
    ELSE Valid

fieldRule(fieldName, value, passwordValue) ==
    CASE fieldName = "fullname" -> fullnameRule(value)
      [] fieldName = "email" -> emailRule(value)
      [] fieldName = "password" -> passwordRule(value)
      [] fieldName = "confirmPassword" -> confirmPasswordRule(value, passwordValue)
      [] fieldName = "age" -> ageRule(value)
      [] fieldName = "phone" -> phoneRule(value)
      [] OTHER -> Invalid("")

(***************************************************************************)
(* State                                                                   *)
(***************************************************************************)
VARIABLES
    value,            \* fields[f].value
    validationState,  \* validationState[f]
    classList,        \* the valid/invalid classes of fields[f].classList
    errorText,        \* textContent of each error element, by element id
    submitBtn,        \* [disabled, textContent] of the submit button
    formDisplay,      \* form.style.display
    successDisplay,   \* successMessage.style.display
    formShake,        \* "shake" in form.classList.  The 500 ms callbacks
                      \* that remove it are pending while it is set; one
                      \* that finds it removed changes nothing
    resetTimers,      \* pending 5000 ms reset callbacks
    last              \* the listener or timer callback that ran last: its
                      \* kind ("field" for the input and the blur listener
                      \* of a field, which run the same code), its field,
                      \* whether a submit called showSuccessMessage

\* the FAQ accordion and the tabs, which share no state with the form
VARIABLES
    faqItem,          \* "active" in the classList of each .faq-item
    faqAnswer,        \* "active" in the classList of its .faq-answer
    faqIcon,          \* textContent of its .faq-icon
    lastFaq,          \* the question clicked last, 0 before the first click
    tabBtn,           \* "active" in the classList of each .tab-btn
    tabPanel,         \* "active" in the classList of each .tab-panel
    tabTransform,     \* style.transform of each .tab-btn
    tabTimer,         \* a 100 ms callback of the button is pending; one that
                      \* runs after another changes nothing
    lastTab           \* the tab button clicked last, 0 before the first click

formVars == <<value, validationState, classList, errorText, submitBtn,
              formDisplay, successDisplay, formShake, resetTimers, last>>

widgetVars == <<faqItem, faqAnswer, faqIcon, lastFaq, tabBtn, tabPanel,
                tabTransform, tabTimer, lastTab>>

\* the event demonstration, which shares no state with the others
VARIABLES
    outputChildren,   \* output.children: each element is the number of
                      \* messages created up to and with it, 0 for the
                      \* message of the markup; the text of an element plays
                      \* no part in what addEventMessage does with it
    created,          \* the messages addEventMessage has created
    outputAtEnd,      \* output.scrollTop = output.scrollHeight was set last
    clickCount,       \* clickCount
    clickTransform,   \* clickBtn.style.transform
    clickTimer,       \* a 100 ms callback of clickBtn is pending; one that
                      \* runs after another changes nothing
    hoverColor        \* hoverBtn.style.backgroundColor

eventVars == <<outputChildren, created, outputAtEnd, clickCount,
               clickTransform, clickTimer, hoverColor>>

vars == <<value, validationState, classList, errorText, submitBtn, formDisplay,
          successDisplay, formShake, resetTimers, last,
          faqItem, faqAnswer, faqIcon, lastFaq, tabBtn, tabPanel,
          tabTransform, tabTimer, lastTab,
          outputChildren, created, outputAtEnd, clickCount,
          clickTransform, clickTimer, hoverColor>>

\* the part of the state validateField reads and writes
View == [value |-> value, validationState |-> validationState,
         classList |-> classList, errorText |-> errorText]

(***************************************************************************)
(* Bounds and the values the user enters                                   *)
(***************************************************************************)
MaxResetTimers == 2

Str_Jo == <<"J", "o">>
Str_Blank == <<" ">>
Str_Email == <<"a", "@", "b", ".", "c", "o">>
Str_Pw1 == <<"A", "b", "c", "d", "1", "2", "!", "@">>
Str_Pw2 == <<"X", "b", "c", "d", "1", "2", "!", "@">>
Str_13 == <<"1", "3">>
Str_PhoneShort == <<"1", "2", "3", "4", "5">>

InputValues(fieldName) ==
    CASE fieldName = "fullname" -> {<<>>, Str_Blank, Str_Jo}
      [] fieldName = "email" -> {<<>>, Str_Email}
      [] fieldName = "password" -> {<<>>, Str_Pw1, Str_Pw2}
      [] fieldName = "confirmPassword" -> {<<>>, Str_Pw1}
      [] fieldName = "age" -> {<<>>, Str_13}
      [] fieldName = "phone" -> {<<>>, Str_PhoneShort}

(***************************************************************************)
(* validateField and the functions it calls                                *)
(***************************************************************************)
\* mutant of updateFieldAppearance: the old decoration is not removed first
updateFieldAppearanceNoClear(V, fieldName, errorElement, isValid, errorMessage) ==
    IF trim(V.value[fieldName]) # <<>>
    THEN IF isValid
         THEN [V EXCEPT !.classList[fieldName] = @ \cup {"valid"},
                        !.errorText[errorElement] = ""]
         ELSE [V EXCEPT !.classList[fieldName] = @ \cup {"invalid"},
                        !.errorText[errorElement] = errorMessage]
    ELSE [V EXCEPT !.errorText[errorElement] = ""]

\* mutant of updateFieldAppearance: the message is added to the one on display
updateFieldAppearanceAppend(V, fieldName, errorElement, isValid, errorMessage) ==
    LET cleared == [V EXCEPT !.classList[fieldName] = @ \ {"valid", "invalid"}]
    IN  IF trim(V.value[fieldName]) # <<>>
        THEN IF isValid
             THEN [cleared EXCEPT !.classList[fieldName] = @ \cup {"valid"},
                                  !.errorText[errorElement] = ""]
             ELSE [cleared EXCEPT !.classList[fieldName] = @ \cup {"invalid"},
                                  !.errorText[errorElement] = @ \o errorMessage]
        ELSE [cleared EXCEPT !.errorText[errorElement] = ""]

\* updateFieldAppearance(field, errorElement, isValid, errorMessage)
updateFieldAppearance(V, fieldName, errorElement, isValid, errorMessage) ==
    LET cleared == [V EXCEPT !.classList[fieldName] = @ \ {"valid", "invalid"}]
    IN  IF trim(V.value[fieldName]) # <<>>
        THEN IF isValid
             THEN [cleared EXCEPT !.classList[fieldName] = @ \cup {"valid"},
                                  !.errorText[errorElement] = ""]
             ELSE [cleared EXCEPT !.classList[fieldName] = @ \cup {"invalid"},
                                  !.errorText[errorElement] = errorMessage]
        ELSE [cleared EXCEPT !.errorText[errorElement] = ""]

\* mutant of storeValidity: a write for password also clears the stored
\* validity of confirmPassword
storeValidityAndClearConfirm(vs, fieldName, isValid) ==
    [g \in DOMAIN vs |->
        IF g = fieldName THEN isValid
        ELSE IF fieldName = "password" /\ g = "confirmPassword" THEN FALSE
        ELSE vs[g]]

\* validationState[fieldName] = isValid
storeValidity(vs, fieldName, isValid) == [vs EXCEPT ![fieldName] = isValid]

\* validateField(fieldName, value): the state it leaves and the value it returns
validateField(V, fieldName, val) ==
    LET r  == fieldRule(fieldName, val, V.value["password"])
        V1 == updateFieldAppearance(V, fieldName,
                  getElementById(errorElementId(fieldName)),
                  r.isValid, r.errorMessage)
    IN  [view |-> [V1 EXCEPT !.validationState =
                                  storeValidity(@, fieldName, r.isValid)],
         isValid |-> r.isValid]

\* requiredFields.every(field => validationState[field])
allRequiredValid(vs) ==
    \A i \in 1..Len(requiredFields) : vs[requiredFields[i]]

\* updateSubmitButton(): the button it leaves
updateSubmitButton(vs) ==
    [disabled |-> ~allRequiredValid(vs),
     textContent |-> IF allRequiredValid(vs) THEN LabelReady ELSE LabelIncomplete]

(***************************************************************************)
(* The submit listener and showSuccessMessage                              *)
(***************************************************************************)
\* mutant of validateAll: the submit trusts the stored validity instead of
\* validating again
validateAllStored(V, i, allValid) ==
    [view |-> V, allValid |-> \A f \in FieldNames : V.validationState[f]]

RECURSIVE validateAll(_, _, _)
\* Object.keys(fields).forEach(fieldName => { const isValid =
\*     validateField(fieldName, fields[fieldName].value);
\*     if (!isValid) allValid = false; }), from field i on
validateAll(V, i, allValid) ==
    IF i > Len(Fields)
    THEN [view |-> V, allValid |-> allValid]
    ELSE LET r == validateField(V, Fields[i], V.value[Fields[i]])
         IN  validateAll(r.view, i + 1, allValid /\ r.isValid)

\* the id the reset callback looks the error element up by
resetErrorElementId(field) == field \o "-error"

RECURSIVE resetLoop(_, _)
\* Object.keys(validationState).forEach(field => {...}) of the reset callback,
\* from field i on; writing textContent of a null element throws a TypeError,
\* which leaves the forEach and the callback
resetLoop(V, i) ==
    IF i > Len(Fields)
    THEN [view |-> V, threw |-> FALSE]
    ELSE LET field == Fields[i]
             V1 == [V EXCEPT !.validationState[field] = FALSE,
                             !.classList[field] = @ \ {"valid", "invalid"}]
             errorElement == getElementById(resetErrorElementId(field))
         IN  IF errorElement = null
             THEN [view |-> V1, threw |-> TRUE]
             ELSE resetLoop([V1 EXCEPT !.errorText[errorElement] = ""], i + 1)

\* form.reset(): every control goes back to its default value
formReset(V) == [V EXCEPT !.value = [f \in FieldNames |-> <<>>]]

\* the display the reset callback leaves
resetDisplay == [form |-> "block", success |-> "none"]

\* mutant of scheduleReset: no callback is scheduled
scheduleNothing(n) == n

\* the timers showSuccessMessage leaves pending
scheduleReset(n) == n + 1

SetView(V) ==
    /\ value' = V.value
    /\ validationState' = V.validationState
    /\ classList' = V.classList
    /\ errorText' = V.errorText

(***************************************************************************)
(* Actions                                                                 *)
(***************************************************************************)
\* the items of document.querySelectorAll('.faq-question')
NumFaq == 3
FaqItems == 1..NumFaq

\* the buttons of document.querySelectorAll('.tab-btn')
NumTabs == 3
TabButtons == 1..NumTabs

\* the panels of document.querySelectorAll('.tab-panel'): the panel of a
\* button is the one its data-tab attribute gives the id of
TabPanels == 1..NumTabs
dataTab(button) == button

\* the icon of an open item (the source writes the minus sign U+2212) and of
\* a closed one
IconOpen == "-"
IconClosed == "+"

\* the widgets before any click: every FAQ item closed, the first tab shown
WidgetMount ==
    /\ faqItem = [i \in FaqItems |-> FALSE]
    /\ faqAnswer = [i \in FaqItems |-> FALSE]
    /\ faqIcon = [i \in FaqItems |-> IconClosed]
    /\ lastFaq = 0
    /\ tabBtn = [b \in TabButtons |-> b = 1]
    /\ tabPanel = [p \in TabPanels |-> p = dataTab(1)]
    /\ tabTransform = [b \in TabButtons |-> ""]
    /\ tabTimer = [b \in TabButtons |-> FALSE]
    /\ lastTab = 0

FormMount ==
    /\ value = [f \in FieldNames |-> <<>>]
    /\ validationState = [f \in FieldNames |-> f = "phone"]
    /\ classList = [f \in FieldNames |-> {}]
    /\ errorText = [id \in ErrorElementIds |-> ""]
    \* the button is as the markup leaves it: no code runs on it at mount
    /\ submitBtn \in [disabled : BOOLEAN, textContent : {"(markup)"}]
    /\ formDisplay = ""
    /\ successDisplay = ""
    /\ formShake = FALSE
    /\ resetTimers = 0
    /\ last = [kind |-> "mount", field |-> "",
               accepted |-> FALSE]

\* the message the markup puts in the event output
InitialMessage == 0

\* the event demonstration before any event
EventMount ==
    /\ outputChildren = <<InitialMessage>>
    /\ created = 0
    /\ outputAtEnd = FALSE
    /\ clickCount = 0
    /\ clickTransform = ""
    /\ clickTimer = FALSE
    /\ hoverColor = ""

Init == FormMount /\ WidgetMount /\ EventMount

\* field.addEventListener('input', ...): the user changed the field to v
Input(f, v) ==
    LET r == validateField([View EXCEPT !.value[f] = v], f, v)
    IN  /\ SetView(r.view)
        /\ submitBtn' = updateSubmitButton(r.view.validationState)
        /\ last' = [kind |-> "field", field |-> f, accepted |-> FALSE]
        /\ UNCHANGED <<formDisplay, successDisplay, formShake, resetTimers>>
        /\ UNCHANGED <<widgetVars, eventVars>>

\* field.addEventListener('blur', ...)
Blur(f) ==
    LET r == validateField(View, f, value[f])
    IN  /\ SetView(r.view)
        /\ submitBtn' = updateSubmitButton(r.view.validationState)
        /\ last' = [kind |-> "field", field |-> f, accepted |-> FALSE]
        /\ UNCHANGED <<formDisplay, successDisplay, formShake, resetTimers>>
        /\ UNCHANGED <<widgetVars, eventVars>>

\* form.addEventListener('submit', ...)
Submit ==
    LET r == validateAll(View, 1, TRUE)
    IN  /\ SetView(r.view)
        /\ last' = [kind |-> "submit", field |-> "",
                    accepted |-> r.allValid]
        /\ IF r.allValid
           THEN \* showSuccessMessage()
                /\ resetTimers < MaxResetTimers
                /\ formDisplay' = "none"
                /\ successDisplay' = "block"
                /\ resetTimers' = scheduleReset(resetTimers)
                /\ UNCHANGED formShake
           ELSE \* form.classList.add('shake'), and its removal is scheduled
                /\ formShake' = TRUE
                /\ UNCHANGED <<formDisplay, successDisplay, resetTimers>>
        /\ UNCHANGED submitBtn
        /\ UNCHANGED <<widgetVars, eventVars>>

\* setTimeout(() => form.classList.remove('shake'), 500) fires
ShakeTimeout ==
    /\ formShake
    /\ formShake' = FALSE
    /\ last' = [kind |-> "shakeTimeout", field |-> "", accepted |-> FALSE]
    /\ UNCHANGED <<value, validationState, classList, errorText, submitBtn,
                   formDisplay, successDisplay, resetTimers>>
    /\ UNCHANGED <<widgetVars, eventVars>>

\* the callback of setTimeout(..., 5000) in showSuccessMessage fires
ResetTimeout ==
    LET r == resetLoop(formReset(View), 1)
    IN  /\ resetTimers > 0
        /\ resetTimers' = resetTimers - 1
        /\ formDisplay' = resetDisplay.form
        /\ successDisplay' = resetDisplay.success
        /\ SetView(r.view)
        /\ submitBtn' = IF r.threw THEN submitBtn
                        ELSE updateSubmitButton(r.view.validationState)
        /\ last' = [kind |-> "reset", field |-> "",
                    accepted |-> FALSE]
        /\ UNCHANGED formShake
        /\ UNCHANGED <<widgetVars, eventVars>>

Next ==
    \/ \E f \in FieldNames : \E v \in InputValues(f) : Input(f, v)
    \/ \E f \in FieldNames : Blur(f)
    \/ Submit
    \/ ShakeTimeout
    \/ ResetTimeout

Spec == Init /\ [][Next]_vars

\* the timer queue runs a reset callback that is due
LiveSpec == Spec /\ WF_vars(ResetTimeout)

(***************************************************************************)
(* The FAQ accordion and the tabs                                          *)
(***************************************************************************)
\* mutant of FaqClick: the other items are left as they are
FaqClickNoClose(i) ==
    LET isActive == faqItem[i]
    IN  /\ faqItem' = [faqItem EXCEPT ![i] = ~isActive]
        /\ faqAnswer' = [faqAnswer EXCEPT ![i] = ~isActive]
        /\ faqIcon' = [faqIcon EXCEPT
                          ![i] = IF ~isActive THEN IconOpen ELSE IconClosed]
        /\ lastFaq' = i
        /\ UNCHANGED <<tabBtn, tabPanel, tabTransform, tabTimer, lastTab>>
        /\ UNCHANGED <<formVars, eventVars>>

\* the click listener of FAQ question i
FaqClick(i) ==
    LET isActive == faqItem[i]
    IN  /\ faqItem' = [j \in FaqItems |-> j = i /\ ~isActive]
        /\ faqAnswer' = [j \in FaqItems |-> j = i /\ ~isActive]
        /\ faqIcon' = [j \in FaqItems |->
                          IF j = i /\ ~isActive THEN IconOpen ELSE IconClosed]
        /\ lastFaq' = i
        /\ UNCHANGED <<tabBtn, tabPanel, tabTransform, tabTimer, lastTab>>
        /\ UNCHANGED <<formVars, eventVars>>

\* mutant of TabClick: the panels that were active stay active
TabClickKeepPanels(b) ==
    LET targetTab == dataTab(b)
    IN  /\ tabBtn' = [c \in TabButtons |-> c = b]
        /\ tabPanel' = [tabPanel EXCEPT ![targetTab] = TRUE]
        /\ tabTransform' = [tabTransform EXCEPT ![b] = "scale(0.95)"]
        /\ tabTimer' = [tabTimer EXCEPT ![b] = TRUE]
        /\ lastTab' = b
        /\ UNCHANGED <<faqItem, faqAnswer, faqIcon, lastFaq>>
        /\ UNCHANGED <<formVars, eventVars>>

\* the click listener of tab button b
TabClick(b) ==
    LET targetTab == dataTab(b)
    IN  /\ tabBtn' = [c \in TabButtons |-> c = b]
        /\ tabPanel' = [p \in TabPanels |-> p = targetTab]
        /\ tabTransform' = [tabTransform EXCEPT ![b] = "scale(0.95)"]
        /\ tabTimer' = [tabTimer EXCEPT ![b] = TRUE]
        /\ lastTab' = b
        /\ UNCHANGED <<faqItem, faqAnswer, faqIcon, lastFaq>>
        /\ UNCHANGED <<formVars, eventVars>>

\* the callback of setTimeout(..., 100) of tab button b fires
TabTimeout(b) ==
    /\ tabTimer[b]
    /\ tabTransform' = [tabTransform EXCEPT ![b] = "scale(1)"]
    /\ tabTimer' = [tabTimer EXCEPT ![b] = FALSE]
    /\ UNCHANGED <<faqItem, faqAnswer, faqIcon, lastFaq, tabBtn, tabPanel,
                   lastTab>>
    /\ UNCHANGED <<formVars, eventVars>>

\* the widgets as the markup may leave them: at most one FAQ item open, with
\* its answer and icon in step; any tab buttons and panels active
WidgetInit ==
    /\ FormMount
    /\ EventMount
    /\ \E open \in 0..NumFaq :
          /\ faqItem = [i \in FaqItems |-> i = open]
          /\ faqAnswer = [i \in FaqItems |-> i = open]
          /\ faqIcon = [i \in FaqItems |->
                           IF i = open THEN IconOpen ELSE IconClosed]
    /\ lastFaq = 0
    /\ tabBtn \in [TabButtons -> BOOLEAN]
    /\ tabPanel \in [TabPanels -> BOOLEAN]
    /\ tabTransform = [b \in TabButtons |-> ""]
    /\ tabTimer = [b \in TabButtons |-> FALSE]
    /\ lastTab = 0

WidgetNext ==
    \/ \E i \in FaqItems : FaqClick(i)
    \/ \E b \in TabButtons : TabClick(b)
    \/ \E b \in TabButtons : TabTimeout(b)

WidgetSpec == WidgetInit /\ [][WidgetNext]_vars

(***************************************************************************)
(* The event demonstration                                                 *)
(***************************************************************************)
\* the messages the model lets addEventMessage create
MaxEvents == 13

\* the children addEventMessage keeps
MaxOutputChildren == 11

\* mutant of removeSecondChild: output.removeChild(output.children[0])
removeFirstChild(children) == Tail(children)

\* output.removeChild(output.children[1])
removeSecondChild(children) ==
    <<children[1]>> \o SubSeq(children, 3, Len(children))

\* while (output.children.length > 11) output.removeChild(output.children[1])
RECURSIVE keepLast(_)
keepLast(children) ==
    IF Len(children) > MaxOutputChildren
    THEN keepLast(removeSecondChild(children))
    ELSE children

\* addEventMessage(message): the state of the output it leaves
addEventMessage(E) ==
    [children |-> keepLast(Append(E.children, E.created + 1)),
     created |-> E.created + 1]

Output == [children |-> outputChildren, created |-> created]

SetOutput(E) ==
    /\ outputChildren' = E.children
    /\ created' = E.created
    /\ outputAtEnd' = TRUE

\* clickBtn.addEventListener('click', ...)
ClickBtnClick ==
    /\ created < MaxEvents
    /\ clickCount' = clickCount + 1
    /\ SetOutput(addEventMessage(Output))
    /\ clickTransform' = "scale(0.95)"
    /\ clickTimer' = TRUE
    /\ UNCHANGED hoverColor
    /\ UNCHANGED <<formVars, widgetVars>>

\* the callback of setTimeout(..., 100) of clickBtn fires
ClickBtnTimeout ==
    /\ clickTimer
    /\ clickTransform' = "scale(1)"
    /\ clickTimer' = FALSE
    /\ UNCHANGED <<outputChildren, created, outputAtEnd, clickCount, hoverColor>>
    /\ UNCHANGED <<formVars, widgetVars>>

\* hoverBtn.addEventListener('mouseenter', ...)
MouseEnter ==
    /\ created < MaxEvents
    /\ SetOutput(addEventMessage(Output))
    /\ hoverColor' = "#e74c3c"
    /\ UNCHANGED <<clickCount, clickTransform, clickTimer>>
    /\ UNCHANGED <<formVars, widgetVars>>

\* hoverBtn.addEventListener('mouseleave', ...)
MouseLeave ==
    /\ created < MaxEvents
    /\ SetOutput(addEventMessage(Output))
    /\ hoverColor' = "#3498db"
    /\ UNCHANGED <<clickCount, clickTransform, clickTimer>>
    /\ UNCHANGED <<formVars, widgetVars>>

\* the keys of a keyup event: Enter and another one
Keys == {"Enter", "a"}

\* keyInput.addEventListener('keyup', ...)
KeyUp(key) ==
    /\ created + (IF key = "Enter" THEN 2 ELSE 1) <= MaxEvents
    /\ SetOutput(IF key = "Enter"
                 THEN addEventMessage(addEventMessage(Output))
                 ELSE addEventMessage(Output))
    /\ UNCHANGED <<clickCount, clickTransform, clickTimer, hoverColor>>
    /\ UNCHANGED <<formVars, widgetVars>>

\* keyInput.addEventListener('focus', ...)
KeyFocus ==
    /\ created < MaxEvents
    /\ SetOutput(addEventMessage(Output))
    /\ UNCHANGED <<clickCount, clickTransform, clickTimer, hoverColor>>
    /\ UNCHANGED <<formVars, widgetVars>>

\* keyInput.addEventListener('blur', ...)
KeyBlur ==
    /\ created < MaxEvents
    /\ SetOutput(addEventMessage(Output))
    /\ UNCHANGED <<clickCount, clickTransform, clickTimer, hoverColor>>
    /\ UNCHANGED <<formVars, widgetVars>>

EventInit == FormMount /\ WidgetMount /\ EventMount

EventNext ==
    \/ ClickBtnClick
    \/ ClickBtnTimeout
    \/ MouseEnter
    \/ MouseLeave
    \/ \E key \in Keys : KeyUp(key)
    \/ KeyFocus
    \/ KeyBlur

EventSpec == EventInit /\ [][EventNext]_vars

(***************************************************************************)
(* validateField as a function of its inputs: the initial state holds one  *)
(* field value (and, for the confirmation, a password value) drawn from a  *)
(* bounded set, last.field names the field under test, and the only step   *)
(* is a call of validateField on that field, which may be repeated.        *)
(***************************************************************************)
MaxPwSuffix == 4
MaxNameLen == 3
MaxAgeLen == 3
MaxEmailLen == 5
MaxPhoneLen == 2

\* the strings over alphabet A of length at most n
Strings(A, n) == UNION {[1..k -> A] : k \in 0..n}

\* one character of each class the password rule tells apart: lowercase,
\* uppercase, digit, allowed symbol, and a character outside all of them
PwAlphabet == {"a", "A", "1", "!", "#"}

PwPrefixes == {<<>>, <<"a", "a", "a", "a">>, <<"a", "a", "a", "a", "a">>}

PasswordInputs ==
    {p \o s : p \in PwPrefixes, s \in Strings(PwAlphabet, MaxPwSuffix)}

\* names over two ASCII letters, a letter outside ASCII, a blank and a digit
NameInputs == Strings({"J", "o", "é", " ", "3"}, MaxNameLen)

AgeInputs == Strings({"0", "1", "2", "3", "a", "-", " "}, MaxAgeLen)

EmailInputs == Strings({"a", "@", ".", " "}, MaxEmailLen)

\* phone numbers put together from their parts, well-formed or not, and the
\* short strings over a few characters
PhoneInputs ==
    {pad \o open \o <<"1", "2", "3">> \o close \o s1 \o <<"4", "5", "6">>
         \o s2 \o tail :
        pad \in {<<>>, <<" ">>},
        open \in {<<>>, <<"(">>},
        close \in {<<>>, <<")">>},
        s1 \in {<<>>, <<"-">>, <<" ">>, <<".">>, <<"x">>},
        s2 \in {<<>>, <<"-">>, <<"-", "-">>},
        tail \in {<<"7", "8", "9">>, <<"7", "8", "9", "0">>,
                  <<"7", "8", "9", "0", "1">>, <<"7", "8", "9", "0", " ">>}}
    \cup Strings({"1", "(", " ", "-"}, MaxPhoneLen)

ConfirmInputs == {<<>>, <<"x">>, Str_Pw1, Str_Pw2}

RuleInputs(fieldName) ==
    CASE fieldName = "fullname" -> NameInputs
      [] fieldName = "email" -> EmailInputs
      [] fieldName = "password" -> PasswordInputs
      [] fieldName = "confirmPassword" -> ConfirmInputs
      [] fieldName = "age" -> AgeInputs
      [] fieldName = "phone" -> PhoneInputs

\* the password values the confirmation is read against; for the other
\* fields the password field is as at mount
RulePasswords(fieldName) ==
    IF fieldName = "confirmPassword" THEN {<<>>, <<"x">>, Str_Pw1, Str_Pw2}
                                     ELSE {<<>>}

RuleInit ==
    /\ \E f \in FieldNames : \E v \in RuleInputs(f) : \E pw \in RulePasswords(f) :
          /\ value = [g \in FieldNames |->
                         IF g = f THEN v
                         ELSE IF g = "password" THEN pw ELSE <<>>]
          /\ last = [kind |-> "mount", field |-> f, accepted |-> FALSE]
    /\ validationState = [f \in FieldNames |-> f = "phone"]
    /\ classList = [f \in FieldNames |-> {}]
    /\ errorText = [id \in ErrorElementIds |-> ""]
    /\ submitBtn = [disabled |-> TRUE, textContent |-> "(markup)"]
    /\ formDisplay = ""
    /\ successDisplay = ""
    /\ formShake = FALSE
    /\ resetTimers = 0
    /\ WidgetMount
    /\ EventMount

\* validateField(fieldName, field.value) on the field under test, as its
\* blur listener calls it
Validate == Blur(last.field)

RuleNext == Validate

RuleSpec == RuleInit /\ [][RuleNext]_vars

(***************************************************************************)
(* Properties.  Every action sets last, so a step that is not a stuttering *)
(* step is a run of the handler last' names.                               *)
(***************************************************************************)
RequiredNames == {"fullname", "email", "password", "confirmPassword", "age"}

\* the current value of field f satisfies its rule, read against the current
\* password value
RuleValid(f) == fieldRule(f, value[f], value["password"]).isValid

Submitted == formDisplay = "none" /\ successDisplay = "block"

FieldEvent == last.kind = "field"

InitialValidity == [f \in FieldNames |-> f = "phone"]

\* C1: a submit event shows the success state iff the five required fields
\* are valid on revalidation; the phone field never blocks it.
C1_SubmitIffRequiredValid ==
    last.kind = "submit" =>
        (last.accepted <=> \A f \in RequiredNames : RuleValid(f))

\* C2: after input/blur events the stored validity of confirmPassword, and
\* its decoration, say whether the confirm value is non-empty and equal to
\* the current password value.
C2_ConfirmTracksPassword ==
    FieldEvent =>
        LET matches == /\ value["confirmPassword"] # <<>>
                       /\ value["confirmPassword"] = value["password"]
        IN  /\ validationState["confirmPassword"] <=> matches
            /\ "valid" \in classList["confirmPassword"] => matches
            /\ "invalid" \in classList["confirmPassword"] => ~matches

\* C3: a submit revalidates every field against its current value: after it
\* every stored validity is the rule's verdict on the current value, and an
\* accepted submit finds the five required fields valid, the confirmation
\* equal to the current password.
C3_SubmitRevalidates ==
    last.kind = "submit" =>
        /\ \A f \in FieldNames : validationState[f] <=> RuleValid(f)
        /\ last.accepted =>
               /\ \A f \in RequiredNames : RuleValid(f)
               /\ value["confirmPassword"] = value["password"]

\* C3 witness: a submit was accepted although the button, set by the last
\* field event from the stored validity, still said "incomplete"
C3_Witness ==
    /\ last.kind = "submit" /\ last.accepted
    /\ submitBtn.disabled /\ submitBtn.textContent = LabelIncomplete

\* C4: a rejected submit leaves every stored validity and the display state
\* as they were.
C4_RejectedSubmitKeepsFormState ==
    [][(last'.kind = "submit" /\ ~last'.accepted) =>
          /\ validationState' = validationState
          /\ formDisplay' = formDisplay
          /\ successDisplay' = successDisplay]_vars

\* C5: after the reset callback every stored validity is as at mount: false
\* for the required fields, true for phone.
C5_ResetRestoresInitial ==
    last.kind = "reset" => validationState = InitialValidity

\* C6: the reset callback completes: every value empty, no valid/invalid
\* decoration, every error message empty, the button disabled and labelled
\* "incomplete".
C6_ResetCompletes ==
    last.kind = "reset" =>
        /\ \A f \in FieldNames :
              /\ value[f] = <<>>
              /\ classList[f] \cap {"valid", "invalid"} = {}
        /\ \A id \in ErrorElementIds : errorText[id] = ""
        /\ submitBtn = [disabled |-> TRUE, textContent |-> LabelIncomplete]

\* C7: whenever the success state is shown, the reset callback eventually
\* shows the form again and hides the success message.
C7_SubmittedLeadsToReset ==
    Submitted ~> (formDisplay = "block" /\ successDisplay = "none")

\* C7 witness: the reset callback ran and the form is shown again
C7_Witness ==
    last.kind = "reset" /\ formDisplay = "block" /\ successDisplay = "none"

\* C8: after an input or blur event the button is enabled and labelled
\* "ready" iff the stored validity of the five required fields is true, and
\* disabled and labelled "incomplete" otherwise, whatever phone's validity.
C8_ButtonFollowsRequired ==
    FieldEvent =>
        IF \A f \in RequiredNames : validationState[f]
        THEN submitBtn = [disabled |-> FALSE, textContent |-> LabelReady]
        ELSE submitBtn = [disabled |-> TRUE, textContent |-> LabelIncomplete]

\* C8 witness: a field event left the button enabled with phone stored invalid
C8_Witness ==
    /\ FieldEvent
    /\ ~submitBtn.disabled
    /\ ~validationState["phone"]

\* C9: an input or blur event on field f leaves the stored validity of every
\* other field as it was.
C9_FieldEventFrame ==
    [][last'.kind = "field" =>
          \A g \in FieldNames \ {last'.field} :
              validationState'[g] = validationState[g]]_vars

\* C9 witness: an input on password changed the verdict of the confirmation
\* rule and left the stored validity of confirmPassword alone
C9_Witness ==
    /\ last.kind = "field" /\ last.field = "password"
    /\ validationState["password"]
    /\ validationState["confirmPassword"]
    /\ ~RuleValid("confirmPassword")

\* the fields the last listener validated
Validated ==
    CASE FieldEvent -> {last.field}
      [] last.kind = "submit" -> FieldNames
      [] OTHER -> {}

Undecorated(f) ==
    /\ classList[f] \cap {"valid", "invalid"} = {}
    /\ errorText[errorElementId(f)] = ""

Decorated(f) ==
    /\ "valid" \in classList[f] <=> validationState[f]
    /\ "invalid" \in classList[f] <=> ~validationState[f]
    /\ errorText[errorElementId(f)] # "" <=> ~validationState[f]

\* C10 as stated: a validated field is undecorated and without message iff
\* its value is empty, and otherwise carries exactly the decoration of its
\* validity, with a message iff invalid.
C10_AppearanceByEmptiness ==
    \A f \in Validated :
        /\ Undecorated(f) <=> value[f] = <<>>
        /\ value[f] # <<>> => Decorated(f)
        /\ ~({"valid", "invalid"} \subseteq classList[f])

\* C10 amended: a validated field is undecorated and without message iff its
\* value is empty or white space only, and otherwise carries exactly the
\* decoration of its validity, with a message iff invalid; never both
\* decorations.
C10_AppearanceByTrimmedEmptiness ==
    \A f \in Validated :
        /\ Undecorated(f) <=> trim(value[f]) = <<>>
        /\ trim(value[f]) # <<>> => Decorated(f)
        /\ ~({"valid", "invalid"} \subseteq classList[f])

\* C10 witness: a submit validated a white-space-only name (undecorated), a
\* valid e-mail (decorated valid) and a malformed phone (decorated invalid,
\* with its message)
C10_Witness ==
    /\ last.kind = "submit"
    /\ value["fullname"] = Str_Blank /\ Undecorated("fullname")
    /\ classList["email"] = {"valid"}
    /\ classList["phone"] = {"invalid"}
    /\ errorText["phone-error"] = MsgPhoneInvalid

(***************************************************************************)
(* Properties of validateField, under RuleSpec                             *)
(***************************************************************************)
\* validateField has run on field f
Tested(f) == last.kind = "field" /\ last.field = f

\* s has a character of class C
Contains(s, C) == \E k \in 1..Len(s) : s[k] \in C

\* C11 as stated: a password is valid iff it has at least 8 characters and
\* contains a lowercase letter, an uppercase letter, a digit and one of the
\* symbols @ $ ! % * ? &.
C11_PasswordByContents ==
    Tested("password") =>
        (validationState["password"] <=>
            /\ Len(value["password"]) >= 8
            /\ Contains(value["password"], Lower)
            /\ Contains(value["password"], Upper)
            /\ Contains(value["password"], Digit)
            /\ Contains(value["password"], {"@", "$", "!", "%", "*", "?", "&"}))

DigitChars == <<"0", "1", "2", "3", "4", "5", "6", "7", "8", "9">>

RECURSIVE Pow10(_)
Pow10(n) == IF n = 0 THEN 1 ELSE 10 * Pow10(n - 1)

RECURSIVE SumTo(_, _)
\* f[1] + ... + f[k]
SumTo(f, k) == IF k = 0 THEN 0 ELSE f[k] + SumTo(f, k - 1)

\* the integer a string starts with, after white space and a sign: the
\* number of leading digits (0 when it parses to not-a-number) and the value
LeadingInteger(s) ==
    LET w    == CHOOSE i \in 0..Len(s) :
                    /\ \A k \in 1..i : s[k] \in Whitespace
                    /\ i < Len(s) => s[i + 1] \notin Whitespace
        sgn  == IF w < Len(s) /\ s[w + 1] \in {"+", "-"} THEN 1 ELSE 0
        from == w + sgn
        d    == CHOOSE i \in 0..(Len(s) - from) :
                    /\ \A k \in 1..i : s[from + k] \in Digit
                    /\ from + i < Len(s) => s[from + i + 1] \notin Digit
        dig  == [k \in 1..d |->
                    ((CHOOSE i \in 1..10 : DigitChars[i] = s[from + k]) - 1)
                        * Pow10(d - k)]
        abs  == SumTo(dig, d)
    IN  [digits |-> d,
         n |-> IF sgn = 1 /\ s[w + 1] = "-" THEN 0 - abs ELSE abs]

\* C12: an age is valid iff it is not empty, starts (after white space and a
\* sign) with an integer, and that integer is in 13..120; so 13 and 120 are
\* valid, 12 and 121 are not, and a value that is no number is invalid.
C12_AgeRule ==
    Tested("age") =>
        LET v == value["age"]
            p == LeadingInteger(v)
        IN  /\ validationState["age"] <=>
                  (v # <<>> /\ p.digits > 0 /\ 13 <= p.n /\ p.n <= 120)
            /\ v \in {<<"1", "3">>, <<"1", "2", "0">>} => validationState["age"]
            /\ v \in {<<"1", "2">>, <<"1", "2", "1">>, <<"a", "a", "a">>}
                   => ~validationState["age"]

\* C12 witness: the upper limit 120 was validated and found valid
C12_Witness ==
    /\ Tested("age")
    /\ value["age"] = <<"1", "2", "0">>
    /\ validationState["age"]

\* s is a 3-3-4 digit number: an optional "(" before and an optional ")"
\* after the first group, and an optional separator (one of - . blank)
\* after the first and after the second group
PhoneShape(s) ==
    \E open \in {<<>>, <<"(">>}, close \in {<<>>, <<")">>},
       s1, s2 \in {<<>>, <<"-">>, <<".">>, <<" ">>} :
        LET shape == open \o <<"D", "D", "D">> \o close \o s1
                          \o <<"D", "D", "D">> \o s2 \o <<"D", "D", "D", "D">>
        IN  /\ Len(s) = Len(shape)
            /\ \A k \in 1..Len(s) :
                   IF shape[k] = "D" THEN s[k] \in Digit ELSE s[k] = shape[k]

\* C13 as stated: the empty phone is valid, and a non-empty phone is valid
\* iff it is a 3-3-4 digit number with optional separators and parentheses;
\* an invalid phone shows the format-example message.
C13_PhoneByEmptiness ==
    Tested("phone") =>
        /\ validationState["phone"] <=>
               (value["phone"] = <<>> \/ PhoneShape(value["phone"]))
        /\ ~validationState["phone"] => errorText["phone-error"] = MsgPhoneInvalid

\* C13 amended: a phone that is empty or white space only is valid, and any
\* other phone is valid iff it is a 3-3-4 digit number with optional
\* separators and parentheses; an invalid phone shows the format-example
\* message.
C13_PhoneByTrimmedEmptiness ==
    Tested("phone") =>
        /\ validationState["phone"] <=>
               (trim(value["phone"]) = <<>> \/ PhoneShape(value["phone"]))
        /\ ~validationState["phone"] => errorText["phone-error"] = MsgPhoneInvalid

\* C13 witness: (123) 456-7890 was validated and found valid
C13_Witness ==
    /\ Tested("phone")
    /\ value["phone"] = <<"(", "1", "2", "3", ")", " ", "4", "5", "6", "-",
                          "7", "8", "9", "0">>
    /\ validationState["phone"]

\* the letters: those of ASCII and, of the others, the one the inputs use
Letters == Lower \cup Upper \cup {"é"}

\* C14: a full name is invalid with the length message if its trimmed length
\* is below 2, invalid with the characters message if its trimmed value has a
\* character that is neither a letter nor white space, and valid otherwise;
\* the two messages differ and the length check comes first.
C14_FullNameRule ==
    Tested("fullname") =>
        LET v == value["fullname"]
            t == trim(v)
            result == [isValid |-> validationState["fullname"],
                       errorMessage |-> fullnameRule(v).errorMessage]
            shown == errorText["fullname-error"]
        IN  /\ MsgNameLength # MsgNameChars
            /\ IF Len(t) < 2
               THEN /\ result = Invalid(MsgNameLength)
                    /\ t # <<>> => shown = MsgNameLength
               ELSE IF \E k \in 1..Len(t) : t[k] \notin Letters \cup Whitespace
               THEN result = Invalid(MsgNameChars) /\ shown = MsgNameChars
               ELSE result = Valid /\ shown = ""

\* C15: validateField gives a result for every field and every value, also
\* for confirmPassword while the password is still empty: the error element
\* it writes to exists, the stored validity is the rule's result, a failure
\* carries a non-empty message and a success the empty one, and the message
\* on display for a value that is not blank is the result's.
C15_ValidateFieldTotal ==
    \A f \in FieldNames :
        Tested(f) =>
            LET r == fieldRule(f, value[f], value["password"])
                errorElement == getElementById(errorElementId(f))
            IN  /\ errorElement # null
                /\ r.isValid \in BOOLEAN
                /\ validationState[f] = r.isValid
                /\ r.isValid <=> r.errorMessage = ""
                /\ trim(value[f]) # <<>> => errorText[errorElement] = r.errorMessage

\* C15 witness: confirmPassword was validated while the password was empty
\* and was found invalid with the mismatch message
C15_Witness ==
    /\ Tested("confirmPassword")
    /\ value["password"] = <<>>
    /\ value["confirmPassword"] = <<"x">>
    /\ ~validationState["confirmPassword"]
    /\ errorText["confirm-password-error"] = MsgConfirmMismatch

\* C16: validateField is idempotent: a validation of a field that follows a
\* validation of the same field, with every value of the form as it was,
\* leaves the stored validity, the decoration, the messages on display and
\* the button as the first validation left them.
C16_ValidateFieldIdempotent ==
    [][(/\ last.kind = "field"
        /\ last'.kind = "field"
        /\ last'.field = last.field
        /\ value' = value)
       => UNCHANGED <<validationState, classList, errorText, submitBtn>>]_vars

\* C16 witness: an email was validated and left invalid, decorated, with its
\* message on display
C16_Witness ==
    /\ Tested("email")
    /\ ~validationState["email"]
    /\ classList["email"] = {"invalid"}
    /\ errorText["email-error"] = MsgEmailInvalid

(***************************************************************************)
(* Properties of the form as a whole, under Spec                           *)
(***************************************************************************)
\* updateSubmitButton has run, which it first does in the first field event
AfterFirstFieldEvent == submitBtn.textContent # "(markup)"

\* C17: in every state after the first field event the button is enabled iff
\* the stored validity of all five required fields is true.
C17_ButtonInSync ==
    AfterFirstFieldEvent =>
        (~submitBtn.disabled <=> \A f \in RequiredNames : validationState[f])

\* C18: the form is hidden with the success message shown iff a reset
\* callback is pending, and at most one reset callback is pending.
C18_SubmittedIffOnePending ==
    /\ Submitted <=> resetTimers > 0
    /\ resetTimers <= 1

(***************************************************************************)
(* Properties of the FAQ accordion and the tabs, under WidgetSpec          *)
(***************************************************************************)
ActiveFaqItems == {i \in FaqItems : faqItem[i]}

\* item, answer and icon of FAQ item i agree
FaqAgree(i) ==
    /\ faqAnswer[i] <=> faqItem[i]
    /\ faqIcon[i] = IF faqItem[i] THEN IconOpen ELSE IconClosed

\* this step is a click on FAQ question i
FaqClicked(i) ==
    /\ lastFaq' = i
    /\ <<faqItem, faqAnswer, faqIcon, lastFaq>>' #
           <<faqItem, faqAnswer, faqIcon, lastFaq>>

\* C19: from at most one active FAQ item, at most one item is ever active
\* and item, answer and icon of every item always agree; a click on an
\* inactive question makes its item the only active one, a click on the
\* active question leaves no item active.
C19_FaqAccordion ==
    /\ [](/\ Cardinality(ActiveFaqItems) <= 1
          /\ \A i \in FaqItems : FaqAgree(i))
    /\ [][\A i \in FaqItems :
              FaqClicked(i) =>
                  ActiveFaqItems' = IF faqItem[i] THEN {} ELSE {i}]_vars

\* C19 witness: question 2 was clicked last and its item is the open one
C19_Witness ==
    /\ lastFaq = 2
    /\ ActiveFaqItems = {2}
    /\ faqAnswer[2]
    /\ faqIcon[2] = IconOpen

\* C20: once a tab button was clicked, the button clicked last is the one
\* active button and the panel its data-tab names is the one active panel.
C20_OneActiveTab ==
    lastTab # 0 =>
        /\ {b \in TabButtons : tabBtn[b]} = {lastTab}
        /\ {p \in TabPanels : tabPanel[p]} = {dataTab(lastTab)}

\* C20 witness: tab button 2 was clicked last and its panel is active
C20_Witness ==
    /\ lastTab = 2
    /\ tabBtn[2]
    /\ tabPanel[dataTab(2)]
    /\ tabTransform[2] = "scale(1)"

(***************************************************************************)
(* Properties of the event output, under EventSpec                         *)
(***************************************************************************)
Elements(children) == {children[k] : k \in 1..Len(children)}

\* the event messages among the children: all but the message of the markup
EventMessages(children) == Elements(children) \ {InitialMessage}

\* the n most recent of the messages created so far, oldest first
MostRecent(n) ==
    LET kept == IF created < n THEN created ELSE n
    IN  [k \in 1..kept |-> created - kept + k]

\* C21: the event output holds at most 11 children, the initial message
\* first and then the 10 most recent event messages, the newest last; a
\* message that is removed is older than every event message that stays, and
\* the initial message is never removed.
C21_EventLogBound ==
    /\ [](/\ Len(outputChildren) <= 11
          /\ outputChildren = <<InitialMessage>> \o MostRecent(10)
          /\ created > 0 => outputChildren[Len(outputChildren)] = created)
    /\ [][/\ outputChildren'[1] = outputChildren[1]
          /\ \A removed \in Elements(outputChildren) \ Elements(outputChildren') :
                /\ removed # InitialMessage
                /\ \A kept \in EventMessages(outputChildren') : removed < kept]_vars

\* C21 witness: twelve messages were created, the two oldest were evicted
C21_Witness ==
    /\ created = 12
    /\ Len(outputChildren) = 11
    /\ outputChildren[1] = InitialMessage
    /\ outputChildren[2] = 3
    /\ outputChildren[11] = 12
    /\ outputAtEnd

====
